---- MODULE Spec2Model ----
(***************************************************************************)
(* Study Strategy Simulator (study_simulator_test.py): the scorer          *)
(* simulate, the comparator compare and the interactive session of main.   *)
(*                                                                         *)
(* Python floats are IEEE-754 binary64 numbers.  They are modelled here    *)
(* bit for bit: a float is a record [s, m, e] of value (-1)^s * m * 2^e    *)
(* whose significand m has exactly 53 bits (or is zero), and every         *)
(* operation rounds to nearest, ties to even.  TLC integers have 32 bits,  *)
(* so significands are naturals kept as little-endian sequences of limbs   *)
(* in base 2^14.                                                           *)
(***************************************************************************)
EXTENDS Integers, Sequences, FiniteSets, TLC

----------------------------------------------------------------------------
(* Natural numbers of any size: little-endian limb sequences, no high      *)
(* zero limb; << >> is zero.                                               *)

LimbBits == 14
Base == 16384

RECURSIVE Pow2(_)
Pow2(n) == IF n = 0 THEN 1 ELSE 2 * Pow2(n - 1)

RECURSIVE NNorm(_)
NNorm(x) ==
    IF x = << >> THEN << >>
    ELSE IF x[Len(x)] = 0 THEN NNorm(SubSeq(x, 1, Len(x) - 1))
    ELSE x

NFromInt(i) ==
    IF i = 0 THEN << >>
    ELSE IF i < Base THEN << i >>
    ELSE IF i < Base * Base THEN << i % Base, i \div Base >>
    ELSE << i % Base, (i \div Base) % Base, i \div (Base * Base) >>

RECURSIVE NToInt(_)
NToInt(x) == IF x = << >> THEN 0 ELSE Head(x) + Base * NToInt(Tail(x))

RECURSIVE NAddC(_, _, _)
NAddC(x, y, c) ==
    IF x = << >> /\ y = << >> THEN (IF c = 0 THEN << >> ELSE << c >>)
    ELSE LET a == IF x = << >> THEN 0 ELSE Head(x)
             b == IF y = << >> THEN 0 ELSE Head(y)
             t == a + b + c
         IN  << t % Base >> \o NAddC(IF x = << >> THEN x ELSE Tail(x),
                                     IF y = << >> THEN y ELSE Tail(y),
                                     t \div Base)

NAdd(x, y) == NAddC(x, y, 0)

\* x - y - b for x >= y + b, limb by limb with borrow
RECURSIVE NSubB(_, _, _)
NSubB(x, y, b) ==
    IF x = << >> THEN << >>
    ELSE LET s == IF y = << >> THEN 0 ELSE Head(y)
             t == Head(x) - s - b
         IN  << IF t < 0 THEN t + Base ELSE t >>
             \o NSubB(Tail(x), IF y = << >> THEN y ELSE Tail(y),
                      IF t < 0 THEN 1 ELSE 0)

NSub(x, y) == NNorm(NSubB(x, y, 0))

\* -1, 0, 1 as x < y, x = y, x > y
RECURSIVE NCmpAt(_, _, _)
NCmpAt(x, y, i) ==
    IF i = 0 THEN 0
    ELSE IF x[i] < y[i] THEN -1
    ELSE IF x[i] > y[i] THEN 1
    ELSE NCmpAt(x, y, i - 1)

NCmp(x, y) ==
    IF Len(x) < Len(y) THEN -1
    ELSE IF Len(x) > Len(y) THEN 1
    ELSE NCmpAt(x, y, Len(x))

\* x * k + c for a small k (k < 2^16)
RECURSIVE NMulSmallC(_, _, _)
NMulSmallC(x, k, c) ==
    IF x = << >> THEN (IF c = 0 THEN << >> ELSE << c % Base >> \o NMulSmallC(x, k, c \div Base))
    ELSE LET t == Head(x) * k + c
         IN  << t % Base >> \o NMulSmallC(Tail(x), k, t \div Base)

NMulSmall(x, k) == IF k = 0 THEN << >> ELSE NMulSmallC(x, k, 0)

\* the sum of x[i] * y[k + 1 - i] for i in lo..hi: column k of the product
RECURSIVE NMulColumn(_, _, _, _, _)
NMulColumn(x, y, k, lo, hi) ==
    IF lo > hi THEN 0
    ELSE x[lo] * y[k + 1 - lo] + NMulColumn(x, y, k, lo + 1, hi)

\* the columns from k on, with the carry c of the columns below
RECURSIVE NMulCarry(_, _, _, _)
NMulCarry(x, y, k, c) ==
    IF k >= Len(x) + Len(y) THEN (IF c = 0 THEN << >> ELSE << c >>)
    ELSE LET lo == IF k > Len(y) THEN k + 1 - Len(y) ELSE 1
             hi == IF k < Len(x) THEN k ELSE Len(x)
             t  == NMulColumn(x, y, k, lo, hi) + c
         IN  << t % Base >> \o NMulCarry(x, y, k + 1, t \div Base)

\* x * y, column by column (a column of up to 7 limb products, and of 8
\* when a top limb is small, stays below 2^31)
NMul(x, y) == IF x = << >> \/ y = << >> THEN << >> ELSE NMulCarry(x, y, 1, 0)

\* floor(x / k) for a small k (0 < k < 2^16), from the top limb down
RECURSIVE NDivSmallAt(_, _, _, _)
NDivSmallAt(x, k, i, r) ==
    IF i = 0 THEN << >>
    ELSE LET t == r * Base + x[i]
         IN  NDivSmallAt(x, k, i - 1, t % k) \o << t \div k >>

NDivSmall(x, k) == NNorm(NDivSmallAt(x, k, Len(x), 0))

RECURSIVE Zeros(_)
Zeros(n) == IF n = 0 THEN << >> ELSE << 0 >> \o Zeros(n - 1)

\* x * 2^n
NShl(x, n) ==
    IF x = << >> THEN x
    ELSE Zeros(n \div LimbBits) \o NMulSmall(x, Pow2(n % LimbBits))

\* floor(x / 2^n)
NShr(x, n) ==
    LET d == n \div LimbBits
    IN  IF d >= Len(x) THEN << >>
        ELSE NDivSmall(SubSeq(x, d + 1, Len(x)), Pow2(n % LimbBits))

RECURSIVE BitLen1(_)
BitLen1(i) == IF i = 0 THEN 0 ELSE 1 + BitLen1(i \div 2)

NBitLen(x) ==
    IF x = << >> THEN 0 ELSE LimbBits * (Len(x) - 1) + BitLen1(x[Len(x)])

NIsOdd(x) == x # << >> /\ Head(x) % 2 = 1

\* << floor(r * Base^steps / y), its remainder >> for r < y, where y has
\* its top limb >= Base / 2: long division, one quotient limb per step.  The
\* limb estimated from the two top limbs of the remainder is at most 2 too
\* large (Knuth's algorithm D); q is the quotient so far
RECURSIVE NDivLimbs(_, _, _, _)
NDivLimbs(r, y, steps, q) ==
    IF steps = 0 THEN << q, r >>
    ELSE LET n    == Len(y)
             r1   == IF r = << >> THEN r ELSE << 0 >> \o r
             top  == IF Len(r1) > n THEN r1[n + 1] * Base + r1[n]
                     ELSE IF Len(r1) = n THEN r1[n] ELSE 0
             est  == top \div y[n]
             q0   == IF est > Base - 1 THEN Base - 1 ELSE est
             q1   == IF NCmp(NMulSmall(y, q0), r1) > 0 THEN q0 - 1 ELSE q0
             q2   == IF NCmp(NMulSmall(y, q1), r1) > 0 THEN q1 - 1 ELSE q1
             rest == NSub(r1, NMulSmall(y, q2))
         IN  NDivLimbs(rest, y, steps - 1,
                       IF q = << >> /\ q2 = 0 THEN q ELSE << q2 >> \o q)

----------------------------------------------------------------------------
(* IEEE-754 binary64 values and operations (round to nearest, ties to      *)
(* even).  No value of the program is subnormal, infinite or NaN.          *)

MantBits == 53
\* a quotient is computed to DivLimbs limbs below its leading bit, with
\* both significands shifted by DivShift bits to fill their top limb
DivLimbs == 4
DivShift == 3

FZero == [s |-> 0, m |-> << >>, e |-> 0]

\* The operations below take the value of an argument once, as the element
\* of a singleton set, before they compute with it.
One(S) == CHOOSE x \in S : TRUE

\* the significand q, of MantBits bits or one more, as a float
FPack(s, q, e) ==
    IF NBitLen(q) > MantBits
    THEN [s |-> s, m |-> NShr(q, 1), e |-> e + 1]
    ELSE [s |-> s, m |-> q, e |-> e]

\* q or q + 1: to nearest, ties to even; c compares the bits cut off with
\* one half
FRoundUp(q, c, sticky) ==
    IF c > 0 \/ (c = 0 /\ (sticky \/ NIsOdd(q))) THEN NAddC(q, << >>, 1) ELSE q

\* n, with sh bits more than MantBits, rounded to MantBits bits
FRoundLong(s, n, e, sticky, sh) ==
    One({ FPack(s, q1, e + sh) :
            q1 \in { One({ FRoundUp(q, c, sticky) :
                             c \in { NCmp(NSub(n, NShl(q, sh)),
                                         NShl(<< 1 >>, sh - 1)) } }) :
                     q \in { NShr(n, sh) } } })

\* the float nearest (-1)^s * n * 2^e; sticky: the exact value lies
\* strictly above n * 2^e in magnitude (n then has more than 54 bits);
\* nl = << n, its number of bits >>
FRound(s, n0, e, sticky) ==
    One({ IF nl[1] = << >> THEN FZero
          ELSE IF nl[2] <= MantBits
          THEN [s |-> s, m |-> NShl(nl[1], MantBits - nl[2]),
                e |-> e - (MantBits - nl[2])]
          ELSE FRoundLong(s, nl[1], e, sticky, nl[2] - MantBits) :
            nl \in { << n, NBitLen(n) >> : n \in { n0 } } })

FInt(i) == FRound(IF i < 0 THEN 1 ELSE 0, NFromInt(IF i < 0 THEN -i ELSE i), 0, FALSE)

FNeg(a0) == One({ [a EXCEPT !.s = 1 - a.s] : a \in { a0 } })

FMul(a0, b0) ==
    One({ IF a.m = << >> \/ b.m = << >> THEN FZero
          ELSE FRound((a.s + b.s) % 2, NMul(a.m, b.m), a.e + b.e, FALSE) :
            a \in { a0 }, b \in { b0 } })

\* a + b for nonzero a and b, their significands x and y aligned at 2^e;
\* c compares x with y
FAddAligned(a, b, e, x, y, c) ==
    FRound(IF a.s = b.s \/ c > 0 THEN a.s ELSE IF c = 0 THEN 0 ELSE b.s,
           IF a.s = b.s THEN NAdd(x, y)
           ELSE IF c > 0 THEN NSub(x, y) ELSE NSub(y, x),
           e, FALSE)

FAddAt(a, b, e) ==
    One({ One({ FAddAligned(a, b, e, xy[1], xy[2], c) :
                  c \in { NCmp(xy[1], xy[2]) } }) :
            xy \in { << NShl(a.m, a.e - e), NShl(b.m, b.e - e) >> } })

FAdd(a0, b0) ==
    One({ IF a.m = << >> THEN b
          ELSE IF b.m = << >> THEN a
          ELSE FAddAt(a, b, IF a.e < b.e THEN a.e ELSE b.e) :
            a \in { a0 }, b \in { b0 } })

FSub(a, b) == FAdd(a, FNeg(b))

\* a / b for nonzero a, their significands x and y shifted by DivShift
FDivShifted(a, b, x, y, ge) ==
    One({ FRound((a.s + b.s) % 2, qr[1], a.e - b.e - DivLimbs * LimbBits,
                 qr[2] # << >>) :
            qr \in { NDivLimbs(IF ge THEN NSub(x, y) ELSE x, y, DivLimbs,
                               IF ge THEN << 1 >> ELSE << >>) } })

FDiv(a0, b0) ==
    One({ IF a.m = << >> THEN FZero
          ELSE One({ One({ FDivShifted(a, b, xy[1], xy[2], ge) :
                             ge \in { NCmp(xy[1], xy[2]) >= 0 } }) :
                       xy \in { << NShl(a.m, DivShift), NShl(b.m, DivShift) >> } }) :
            a \in { a0 }, b \in { b0 } })

\* a < b for a and b of one sign, neither zero, their significands
\* aligned at 2^e; c compares |a| with |b|
FLessAt(a, b, e) ==
    One({ IF a.s = 0 THEN c < 0 ELSE c > 0 :
            c \in { NCmp(NShl(a.m, a.e - e), NShl(b.m, b.e - e)) } })

\* a < b
FLess(a0, b0) ==
    One({ IF a.m = << >> /\ b.m = << >> THEN FALSE
          ELSE IF a.m = << >> THEN b.s = 0
          ELSE IF b.m = << >> THEN a.s = 1
          ELSE IF a.s # b.s THEN a.s = 1
          ELSE FLessAt(a, b, IF a.e < b.e THEN a.e ELSE b.e) :
            a \in { a0 }, b \in { b0 } })

\* the float of the decimal literal n/d (the nearest double)
FDec(n, d) == FDiv(FInt(n), FInt(d))

\* math.exp: the float nearest e^a, from the Taylor series of
\* e^(a / 2^ExpHalvings) in fixed point with ExpFracBits fractional bits,
\* squared ExpHalvings times (|a| < 16)
ExpFracBits == 98
ExpHalvings == 8
ExpTerms == 14

\* the series 1 + y + y^2/2! + ... (the signs alternate when negative),
\* st = << the last term's magnitude, the sum so far >>; a zero term ends it
RECURSIVE ExpSeries(_, _, _, _)
ExpSeries(y, negative, k, st) ==
    IF k > ExpTerms \/ st[1] = << >> THEN st[2]
    ELSE LET t == NDivSmall(NShr(NMul(st[1], y), ExpFracBits), k)
         IN  ExpSeries(y, negative, k + 1,
                       << t, IF negative /\ k % 2 = 1 THEN NSub(st[2], t)
                             ELSE NAdd(st[2], t) >>)

RECURSIVE ExpSquare(_, _)
ExpSquare(x, n) ==
    IF n = 0 \/ x = << >> THEN x
    ELSE ExpSquare(NShr(NMul(x, x), ExpFracBits), n - 1)

\* e^a for a nonzero a whose significand stands sh bits below the fixed
\* point of the halved argument
FExpShifted(a, sh) ==
    FRound(0,
           One({ ExpSquare(ExpSeries(y, a.s = 1, 1, << one, one >>), ExpHalvings) :
                   y \in { IF sh >= 0 THEN NShl(a.m, sh) ELSE NShr(a.m, -sh) },
                   one \in { NShl(<< 1 >>, ExpFracBits) } }),
           -ExpFracBits, TRUE)

FExp(a0) ==
    One({ IF a.m = << >> THEN FRound(0, << 1 >>, 0, FALSE)
          ELSE FExpShifted(a, a.e - ExpHalvings + ExpFracBits) :
            a \in { a0 } })

\* the tenth nearest n / 2^sh, ties to even; q is n with sh bits cut off
RoundHalfEven(n, sh, q) ==
    One({ NToInt(q) + (IF c > 0 \/ (c = 0 /\ NIsOdd(q)) THEN 1 ELSE 0) :
            c \in { NCmp(NSub(n, NShl(q, sh)), NShl(<< 1 >>, sh - 1)) } })

\* the number of tenths of a nonzero |a|, n its significand times 10
Tenths(a, n) ==
    IF a.e >= 0 THEN NToInt(NShl(n, a.e))
    ELSE One({ RoundHalfEven(n, -a.e, q) : q \in { NShr(n, -a.e) } })

\* round(x, 1), as a number of tenths: the tenth nearest the float's exact
\* value, ties to even
Round1(a0) ==
    One({ IF a.m = << >> THEN 0
          ELSE One({ IF a.s = 1 THEN -t ELSE t :
                       t \in { One({ Tenths(a, n) :
                                       n \in { NMulSmall(a.m, 10) } }) } }) :
            a \in { a0 } })

----------------------------------------------------------------------------
(* Simulation logic.  A Strategy is a record of the dataclass' eight       *)
(* fields (its name a sequence of characters); a Result holds the five     *)
(* scores as numbers of tenths (each is rounded to one decimal place) and  *)
(* the notes.                                                              *)

\* the weight tables: the float of each key's decimal literal, given in
\* hundredths
Weights(hundredths) == [key \in DOMAIN hundredths |-> FDec(hundredths[key], 100)]

METHOD_WEIGHTS ==
    Weights([practice_problems |-> 100, flashcards |-> 90, teaching_someone |-> 95,
             summarizing |-> 70, rereading |-> 45, highlighting |-> 40,
             group_study |-> 75])

ENVIRONMENT_WEIGHTS ==
    Weights([library |-> 100, quiet_room |-> 95, coffee_shop |-> 85, dorm_room |-> 80])

BREAK_WEIGHTS ==
    Weights([pomodoro |-> 100, structured |-> 92, none |-> 75, random |-> 80])

\* dict.get(key, default)
Get(table, key, default) == IF key \in DOMAIN table THEN table[key] ELSE default

\* clamp without its upper bound
clamp_no_upper(x0, lo, hi) == One({ IF FLess(lo, x) THEN x ELSE lo : x \in { x0 } })

\* max(lo, min(hi, x))
clamp(x0, lo, hi) ==
    One({ IF FLess(lo, mn) THEN mn ELSE lo :
            mn \in { One({ IF FLess(x, hi) THEN x ELSE hi : x \in { x0 } }) } })

logistic(x) == FDiv(FInt(1), FAdd(FInt(1), FExp(FNeg(x))))

NoteLong == "Session length is long; focus may drop after ~60 minutes."
NoteVeryLong == "Very long sessions increase diminishing returns and fatigue."
NotePassive == "Consider adding active recall (practice problems or flashcards) for stronger retention."
NoteBreaks == "Structured breaks can improve endurance and reduce burnout risk."
NoteDistraction == "High distraction risk: switching to a quieter environment may help."
NoteFrequency == "Low weekly frequency: shorter, more frequent sessions often improve consistency."
NoteLoad == "High weekly study load: consider reducing duration or adding recovery time to avoid burnout."

\* an unknown method weighted like the best one
method_w_default_one(strategy) == Get(METHOD_WEIGHTS, strategy.method, FInt(1))

method_w(strategy) == Get(METHOD_WEIGHTS, strategy.method, FDec(60, 100))
env_w(strategy) == Get(ENVIRONMENT_WEIGHTS, strategy.environment, FDec(85, 100))
break_w(strategy) == Get(BREAK_WEIGHTS, strategy.break_style, FDec(85, 100))

total_minutes(strategy) == strategy.session_minutes * strategy.sessions_per_week

\* the thresholds taken as strict: sessions of 60 and of 90 minutes fall in
\* the next band
session_focus_strict(strategy) ==
    IF strategy.session_minutes < 60 THEN FInt(1)
    ELSE IF strategy.session_minutes < 90 THEN FDec(88, 100)
    ELSE FDec(75, 100)

session_focus(strategy) ==
    IF strategy.session_minutes <= 60 THEN FInt(1)
    ELSE IF strategy.session_minutes <= 90 THEN FDec(88, 100)
    ELSE FDec(75, 100)

session_notes(strategy) ==
    IF strategy.session_minutes <= 60 THEN << >>
    ELSE IF strategy.session_minutes <= 90 THEN << NoteLong >>
    ELSE << NoteVeryLong >>

\* the penalty with its sign lost: a factor that grows with the risk
distraction_penalty_rising(strategy) ==
    FAdd(FInt(1), FMul(FInt(strategy.distraction_risk - 1), FDec(6, 100)))

\* the penalty with the step of the difficulty penalty
distraction_penalty_step_0_05(strategy) ==
    FSub(FInt(1), FMul(FInt(strategy.distraction_risk - 1), FDec(5, 100)))

distraction_penalty(strategy) ==
    FSub(FInt(1), FMul(FInt(strategy.distraction_risk - 1), FDec(6, 100)))

difficulty_penalty(strategy) ==
    FSub(FInt(1), FMul(FInt(strategy.course_difficulty - 1), FDec(5, 100)))

\* the effectiveness before it is rounded, for the weights mw, ew, bw
effectiveness(strategy, mw, ew, bw) ==
    clamp(FMul(FMul(FMul(FMul(FMul(FMul(FInt(85), mw), ew), bw),
                         session_focus(strategy)),
                    distraction_penalty(strategy)),
               difficulty_penalty(strategy)),
          FZero, FInt(100))

\* the burnout risk before it is rounded
burnout_risk(strategy, bw) ==
    clamp(FMul(FInt(100),
               logistic(FAdd(FAdd(FSub(FDiv(FInt(total_minutes(strategy)), FInt(300)), FInt(1)),
                                  FSub(FInt(1), bw)),
                             FMul(FInt(strategy.course_difficulty - 3), FDec(15, 100))))),
          FZero, FInt(100))

\* the rules chained with elif: at most one of them fires
recommendation_notes_elif(strategy) ==
    IF strategy.method \in {"rereading", "highlighting"} THEN << NotePassive >>
    ELSE IF strategy.break_style \in {"none", "random"} THEN << NoteBreaks >>
    ELSE IF strategy.environment \in {"dorm_room", "coffee_shop"}
            /\ strategy.distraction_risk >= 4
         THEN << NoteDistraction >>
    ELSE IF strategy.sessions_per_week <= 2 THEN << NoteFrequency >>
    ELSE IF total_minutes(strategy) > 600 THEN << NoteLoad >>
    ELSE << >>

recommendation_notes(strategy) ==
    (IF strategy.method \in {"rereading", "highlighting"} THEN << NotePassive >> ELSE << >>)
    \o (IF strategy.break_style \in {"none", "random"} THEN << NoteBreaks >> ELSE << >>)
    \o (IF strategy.environment \in {"dorm_room", "coffee_shop"}
           /\ strategy.distraction_risk >= 4
        THEN << NoteDistraction >> ELSE << >>)
    \o (IF strategy.sessions_per_week <= 2 THEN << NoteFrequency >> ELSE << >>)
    \o (IF total_minutes(strategy) > 600 THEN << NoteLoad >> ELSE << >>)

\* the notes of a Result: the session-length note, then the fired rules' notes
notes(strategy) == session_notes(strategy) \o recommendation_notes(strategy)

sustainability(burn, bw) ==
    clamp(FAdd(FSub(FInt(100), burn), FMul(FSub(bw, FDec(80, 100)), FInt(10))), FZero, FInt(100))

hours(strategy) == FDiv(FInt(total_minutes(strategy)), FInt(60))

\* 1.0 / (1.0 + 0.12 * max(0.0, hours - 5.0))
diminishing(h) ==
    One({ FDiv(FInt(1), FAdd(FInt(1), FMul(FDec(12, 100), IF FLess(FZero, over) THEN over ELSE FZero))) :
            over \in { FSub(h, FInt(5)) } })

efficiency(eff, h) ==
    IF ~FLess(FZero, h) THEN FZero
    ELSE clamp(FDiv(FMul(eff, diminishing(h)), FDiv(h, FInt(5))), FZero, FInt(100))

time_gain(h) == FMul(FInt(12), FSub(FInt(1), FExp(FDiv(FNeg(h), FDec(45, 10)))))
method_bonus(mw) == FMul(FInt(3), FSub(mw, FDec(60, 100)))
penalty(burn) == FMul(FInt(4), FDiv(burn, FInt(100)))

predicted_improvement(h, mw, burn) ==
    clamp(FSub(FAdd(time_gain(h), method_bonus(mw)), penalty(burn)), FZero, FInt(15))

\* the Result of the Strategy from its effectiveness, burnout risk and
\* weekly hours: every score rounded to one decimal
Result(strategy, mw, bw, eff, burn, h) ==
    [effectiveness |-> Round1(eff),
     sustainability |-> Round1(sustainability(burn, bw)),
     efficiency |-> Round1(efficiency(eff, h)),
     burnout_risk |-> Round1(burn),
     predicted_improvement |-> Round1(predicted_improvement(h, mw, burn)),
     notes |-> notes(strategy)]

\* simulate past its three table lookups: the Result for the weights
\* mw, ew, bw of the strategy's method, environment and break style
score(strategy, mw0, ew0, bw0) ==
    One({ One({ Result(strategy, w[1], w[3], v[1], v[2], v[3]) :
                  v \in { << effectiveness(strategy, w[1], w[2], w[3]),
                            burnout_risk(strategy, w[3]),
                            hours(strategy) >> } }) :
            w \in { << mw0, ew0, bw0 >> } })

simulate(strategy) ==
    score(strategy, method_w(strategy), env_w(strategy), break_w(strategy))

----------------------------------------------------------------------------
(* The state: the arguments and results of a call of simulate or compare,  *)
(* and the variables of main.                                              *)

VARIABLES
    strategy,       \* the argument of a call of simulate
    result,         \* the Result it returned
    scenarios,      \* main: the list of the Strategies created
    results_cache,  \* main: the list of (Strategy, Result) pairs; the
                    \* argument of a call of compare
    draft,          \* create_strategy: the answers given so far
    said,           \* what the last step has printed
    pc,             \* "call" and "return" around a call; in main, the
                    \* prompt the program is waiting at
    state           \* the text adventure: the dict of health, inventory
                    \* and game_over

vars == << strategy, result, scenarios, results_cache, draft, said, pc, state >>

Strategy(name, method, session_minutes, sessions_per_week, environment, break_style, course_difficulty, distraction_risk) ==
    [name |-> name, method |-> method, session_minutes |-> session_minutes,
     sessions_per_week |-> sessions_per_week, environment |-> environment,
     break_style |-> break_style, course_difficulty |-> course_difficulty,
     distraction_risk |-> distraction_risk]

\* the domains the prompts of create_strategy enforce
MinSessionMinutes == 10
MaxSessionMinutes == 180
MinSessionsPerWeek == 1
MaxSessionsPerWeek == 14
MinLevel == 1
MaxLevel == 5
Levels == MinLevel..MaxLevel

\* every key of the weight tables and one string that is no key
Methods == DOMAIN METHOD_WEIGHTS \cup {"meditation"}
Environments == DOMAIN ENVIRONMENT_WEIGHTS \cup {"garden"}
BreakStyles == DOMAIN BREAK_WEIGHTS \cup {"stretching"}

ScorerName == << "P", "l", "a", "n" >>

Plans(methods, minutes, per_week, environments, break_styles, difficulties, risks) ==
    { Strategy(ScorerName, m, sm, pw, e, b, cd, dr) :
        m \in methods, sm \in minutes, pw \in per_week, e \in environments,
        b \in break_styles, cd \in difficulties, dr \in risks }

\* The Strategies simulate is called on: slices of the valid domain that
\* cover every table key and default, every level of difficulty and
\* distraction, the thresholds of the session length, of the weekly
\* frequency and of the weekly load, and the ends of every range.
Strategies ==
    \* the weight tables
    Plans(Methods, {45}, {4}, Environments, {"pomodoro"}, {3}, {2})
    \cup Plans({"practice_problems", "meditation"}, {45}, {4},
               {"library", "garden"}, BreakStyles, {3}, {2})
    \* the penalties
    \cup Plans({"practice_problems"}, {45}, {4}, {"library"},
               {"pomodoro", "none"}, Levels, Levels)
    \cup Plans({"highlighting", "group_study"}, {60, 91}, {4}, {"quiet_room"},
               {"random"}, Levels, Levels)
    \cup Plans({"meditation"}, {75}, {4}, {"garden"}, {"stretching"}, Levels, Levels)
    \* the time
    \cup Plans({"practice_problems", "highlighting"},
               {MinSessionMinutes, 60, 61, 90, 91, MaxSessionMinutes},
               {MinSessionsPerWeek, 2, 3, MaxSessionsPerWeek},
               {"library"}, {"pomodoro"}, {MinLevel, MaxLevel}, {1})
    \* the recommendations
    \cup Plans({"practice_problems", "rereading"}, {45}, {2, 4, MaxSessionsPerWeek},
               {"library", "dorm_room"}, {"pomodoro", "random"}, {3}, {2, 4})
    \cup Plans({"highlighting"}, {75, MaxSessionMinutes}, {2, 3, 4, MaxSessionsPerWeek},
               {"coffee_shop"}, {"none"}, {MaxLevel}, {3, MaxLevel})

\* simulate is a pure function: its Result for each Strategy, computed once
Simulated == [s \in Strategies |-> simulate(s)]

ScorerInit ==
    /\ strategy \in Strategies
    /\ result = << >>
    /\ scenarios = << >>
    /\ results_cache = << >>
    /\ draft = << >>
    /\ said = << >>
    /\ pc = "call"
    /\ state = << >>

Simulate ==
    /\ pc = "call"
    /\ result' = Simulated[strategy]
    /\ pc' = "return"
    /\ UNCHANGED << state, strategy, scenarios, results_cache, draft, said >>

ScorerNext == Simulate

ScorerSpec == ScorerInit /\ [][ScorerNext]_vars

----------------------------------------------------------------------------
(* Text: what the user types and the names of the scenarios are sequences  *)
(* of one-character strings.                                               *)

Whitespace == { " ", "\t" }

RECURSIVE LStrip(_)
LStrip(text) ==
    IF text # << >> /\ Head(text) \in Whitespace THEN LStrip(Tail(text)) ELSE text

RECURSIVE RStrip(_)
RStrip(text) ==
    IF text # << >> /\ text[Len(text)] \in Whitespace
    THEN RStrip(SubSeq(text, 1, Len(text) - 1))
    ELSE text

\* str.strip
Strip(text) == RStrip(LStrip(text))

UpperCase == << "A", "B", "C", "D", "E", "F", "G", "H", "I", "J", "K", "L", "M",
                "N", "O", "P", "Q", "R", "S", "T", "U", "V", "W", "X", "Y", "Z" >>
LowerCase == << "a", "b", "c", "d", "e", "f", "g", "h", "i", "j", "k", "l", "m",
                "n", "o", "p", "q", "r", "s", "t", "u", "v", "w", "x", "y", "z" >>

\* str.lower
Lower(text) ==
    [i \in DOMAIN text |->
        IF \E k \in DOMAIN UpperCase : UpperCase[k] = text[i]
        THEN LowerCase[CHOOSE k \in DOMAIN UpperCase : UpperCase[k] = text[i]]
        ELSE text[i]]

DigitChars == << "0", "1", "2", "3", "4", "5", "6", "7", "8", "9" >>
IsDigit(c) == \E k \in DOMAIN DigitChars : DigitChars[k] = c
DigitValue(c) == (CHOOSE k \in DOMAIN DigitChars : DigitChars[k] = c) - 1

RECURSIVE DigitsValue(_, _)
DigitsValue(text, acc) ==
    IF text = << >> THEN acc
    ELSE IF Head(text) = "_" THEN DigitsValue(Tail(text), acc)
    ELSE DigitsValue(Tail(text), 10 * acc + DigitValue(Head(text)))

\* int(raw): an optional sign, then digits that single underscores may
\* separate; anything else raises ValueError (ok is FALSE)
int(raw) ==
    LET text   == Strip(raw)
        signed == text # << >> /\ Head(text) \in { "+", "-" }
        body   == IF signed THEN Tail(text) ELSE text
        valid  ==
            /\ body # << >>
            /\ IsDigit(body[1])
            /\ IsDigit(body[Len(body)])
            /\ \A i \in DOMAIN body : IsDigit(body[i]) \/ body[i] = "_"
            /\ \A i \in 1..(Len(body) - 1) : ~(body[i] = "_" /\ body[i + 1] = "_")
    IN  IF ~valid THEN [ok |-> FALSE, val |-> 0]
        ELSE [ok |-> TRUE,
              val |-> IF signed /\ Head(text) = "-"
                      THEN 0 - DigitsValue(body, 0)
                      ELSE DigitsValue(body, 0)]

\* str(n) for a natural number n
RECURSIVE str(_)
str(n) ==
    IF n < 10 THEN << DigitChars[n + 1] >>
    ELSE str(n \div 10) \o << DigitChars[(n % 10) + 1] >>

----------------------------------------------------------------------------
(* The prompts.                                                            *)

\* a line of output: a fixed text and the values shown in it
Say(text) == [text |-> text]
SayName(text, name) == [text |-> text, name |-> name]
SayRange(text, min_v, max_v) == [text |-> text, min_v |-> min_v, max_v |-> max_v]


ask(raw) == Strip(raw)

\* ask_int without its range test: every integer is returned
ask_int_any_integer(raw, min_v, max_v) ==
    LET val == int(ask(raw))
    IN  IF ~val.ok
        THEN [ok |-> FALSE, val |-> 0,
              said |-> << SayRange("Please enter an integer between {min_v} and {max_v}.", min_v, max_v) >>]
        ELSE [ok |-> TRUE, val |-> val.val, said |-> << >>]

\* one round of the loop of ask_int on the input raw: the value returned
\* (ok) or the message said before the prompt is repeated
ask_int(raw, min_v, max_v) ==
    LET val == int(ask(raw))
    IN  IF ~val.ok
        THEN [ok |-> FALSE, val |-> 0,
              said |-> << SayRange("Please enter an integer between {min_v} and {max_v}.", min_v, max_v) >>]
        ELSE IF min_v <= val.val /\ val.val <= max_v
        THEN [ok |-> TRUE, val |-> val.val, said |-> << >>]
        ELSE [ok |-> FALSE, val |-> 0,
              said |-> << SayRange("Value must be between {min_v} and {max_v}.", min_v, max_v) >>]

\* one round of the loop of ask_choice on the input raw; the keys of
\* options are strings of one character
ask_choice(raw, options) ==
    LET pick == Lower(ask(raw))
    IN  IF Len(pick) = 1 /\ pick[1] \in DOMAIN options
        THEN [ok |-> TRUE, pick |-> pick[1], said |-> << >>]
        ELSE [ok |-> FALSE, pick |-> "", said |-> << Say("Invalid choice. Try again.") >>]

METHOD_OPTIONS ==
    ("1" :> "practice_problems") @@ ("2" :> "flashcards")
    @@ ("3" :> "teaching_someone") @@ ("4" :> "summarizing")
    @@ ("5" :> "rereading") @@ ("6" :> "highlighting") @@ ("7" :> "group_study")

ENV_OPTIONS ==
    ("1" :> "library") @@ ("2" :> "quiet_room")
    @@ ("3" :> "coffee_shop") @@ ("4" :> "dorm_room")

BREAK_OPTIONS ==
    ("1" :> "pomodoro") @@ ("2" :> "structured")
    @@ ("3" :> "random") @@ ("4" :> "none")

MAIN_MENU ==
    ("1" :> "Create a new scenario") @@ ("2" :> "Run simulation for a scenario")
    @@ ("3" :> "Compare all simulated scenarios") @@ ("4" :> "List scenarios")
    @@ ("5" :> "Quit")

----------------------------------------------------------------------------
(* The output of a Result and the comparison.                              *)

MaxNotesPrinted == 6

\* print_result cutting the notes after the fourth
print_result_four_notes(s, r) ==
    << [text |-> "pretty", strategy |-> s],
       [text |-> "Effectiveness:", value |-> r.effectiveness],
       [text |-> "Sustainability:", value |-> r.sustainability],
       [text |-> "Efficiency:", value |-> r.efficiency],
       [text |-> "Burnout risk:", value |-> r.burnout_risk],
       [text |-> "Predicted improvement:", value |-> r.predicted_improvement] >>
    \o (IF r.notes = << >> THEN << >>
        ELSE << Say("Notes / Recommendations:") >>
             \o [i \in 1..(IF Len(r.notes) < 4 THEN Len(r.notes) ELSE 4) |->
                    [text |-> "  - ", note |-> r.notes[i]]])

\* print_result: the line of the Strategy, the five scores and at most six
\* of the notes
print_result(s, r) ==
    << [text |-> "pretty", strategy |-> s],
       [text |-> "Effectiveness:", value |-> r.effectiveness],
       [text |-> "Sustainability:", value |-> r.sustainability],
       [text |-> "Efficiency:", value |-> r.efficiency],
       [text |-> "Burnout risk:", value |-> r.burnout_risk],
       [text |-> "Predicted improvement:", value |-> r.predicted_improvement] >>
    \o (IF r.notes = << >> THEN << >>
        ELSE << Say("Notes / Recommendations:") >>
             \o [i \in 1..(IF Len(r.notes) < MaxNotesPrinted
                           THEN Len(r.notes) ELSE MaxNotesPrinted) |->
                    [text |-> "  - ", note |-> r.notes[i]]])


\* the one character U+2026
Ellipsis == "..."

NameShown == 24
NameWidth == 25

\* the row of the table for the pair p: the name cut to 24 characters and
\* an ellipsis when it is longer than 25, and the five scores
Row(p) ==
    [text |-> "row",
     name |-> IF Len(p[1].name) > NameWidth
              THEN SubSeq(p[1].name, 1, NameShown) \o << Ellipsis >>
              ELSE p[1].name,
     effectiveness |-> p[2].effectiveness,
     sustainability |-> p[2].sustainability,
     efficiency |-> p[2].efficiency,
     burnout_risk |-> p[2].burnout_risk,
     predicted_improvement |-> p[2].predicted_improvement]

\* max that replaces its candidate by an equal one: the last of the ties
RECURSIVE max_scan_last(_, _, _, _)
max_scan_last(results, key, i, best) ==
    IF i > Len(results) THEN best
    ELSE max_scan_last(results, key, i + 1,
                       IF results[i][2][key] >= best[2][key] THEN results[i] ELSE best)

max_keeps_last(results, key) == max_scan_last(results, key, 2, results[1])

\* max(results, key=...): a scan from the first pair on that replaces its
\* candidate by a pair with a strictly greater key only
RECURSIVE max_scan(_, _, _, _)
max_scan(results, key, i, best) ==
    IF i > Len(results) THEN best
    ELSE max_scan(results, key, i + 1,
                  IF results[i][2][key] > best[2][key] THEN results[i] ELSE best)

max(results, key) == max_scan(results, key, 2, results[1])

\* min(results, key=...): the same scan for a strictly smaller key
RECURSIVE min_scan(_, _, _, _)
min_scan(results, key, i, best) ==
    IF i > Len(results) THEN best
    ELSE min_scan(results, key, i + 1,
                  IF results[i][2][key] < best[2][key] THEN results[i] ELSE best)

min(results, key) == min_scan(results, key, 2, results[1])

\* compare that takes one pair for enough
compare_one_is_enough(results) ==
    IF Len(results) < 1 THEN << Say("Create at least two scenarios to compare.") >>
    ELSE << Say("Scenario Comparison") >>
         \o [i \in 1..Len(results) |-> Row(results[i])]
         \o << SayName("Highest effectiveness: ", max(results, "effectiveness")[1].name),
               SayName("Best sustainability: ", max(results, "sustainability")[1].name),
               SayName("Best efficiency: ", max(results, "efficiency")[1].name),
               SayName("Lowest burnout risk: ", min(results, "burnout_risk")[1].name) >>

\* compare: what it prints for the list results
compare(results) ==
    IF Len(results) < 2 THEN << Say("Create at least two scenarios to compare.") >>
    ELSE << Say("Scenario Comparison") >>
         \o [i \in 1..Len(results) |-> Row(results[i])]
         \o << SayName("Highest effectiveness: ", max(results, "effectiveness")[1].name),
               SayName("Best sustainability: ", max(results, "sustainability")[1].name),
               SayName("Best efficiency: ", max(results, "efficiency")[1].name),
               SayName("Lowest burnout risk: ", min(results, "burnout_risk")[1].name) >>

\* the cache that keeps the earlier pairs of the name
cache_keeps_old_pairs(cache, s, r) == Append(cache, << s, r >>)

\* main's update of the cache: the pairs of other names, then the new pair
cache_update(cache, s, r) ==
    LET OtherName(p) == p[1].name # s.name
    IN  Append(SelectSeq(cache, OtherName), << s, r >>)

----------------------------------------------------------------------------
(* main: the interactive session. A step reads one line of input at the    *)
(* prompt pc and runs the program up to its next prompt.                   *)

MaxScenarios == 2


\* the lines typed at each prompt, by prompt: answers the prompt accepts and
\* answers it rejects; a name is typed in (one that the random default can
\* give as well) or left blank
Inputs ==
    [menu |-> { << "1" >>, << "2" >>, << "3" >>, << "4" >>, << "5" >>,
                << " ", "3", " " >>, << "6" >>, << >> },
     name |-> { << " ", "S", "c", "e", "n", "a", "r", "i", "o", " ", "1", "0", "0" >>,
                << " ", " " >> },
     m_key |-> { << "1" >>, << "6" >>, << "8" >> },
     e_key |-> { << "1" >>, << "5" >> },
     b_key |-> { << "1" >>, << "p" >> },
     session_minutes |-> { << "4", "5" >>, << "9" >>, << "1", "8", "1" >>,
                           << "4", "5", ".", "0" >> },
     sessions_per_week |-> { << "4" >>, << "0" >>, << "1", "5" >> },
     course_difficulty |-> { << "3" >>, << "6" >>, << >> },
     distraction_risk |-> { << "+", "2" >>, << "-", "2" >>, << "2", "_" >> },
     which |-> { str(i) : i \in 0..(MaxScenarios + 1) } \cup { << "x" >> }]

\* the numbers random.randint draws for the default name
RandomNames == { 100, 999 }

Init ==
    /\ strategy = << >>
    /\ result = << >>
    /\ scenarios = << >>
    /\ results_cache = << >>
    /\ draft = << >>
    /\ said = << Say("Study Strategy Simulator (Prototype)") >>
    /\ pc = "menu"
    /\ state = << >>

\* the main menu answered with something that is no option
InvalidChoice ==
    /\ pc = "menu"
    /\ \E raw \in Inputs.menu :
        LET choice == ask_choice(raw, MAIN_MENU)
        IN  /\ ~choice.ok
            /\ said' = choice.said
    /\ UNCHANGED << state, strategy, result, scenarios, results_cache, draft, pc >>

\* choice 1: create_strategy starts and asks for the name
ChooseCreate ==
    /\ pc = "menu"
    /\ Len(scenarios) < MaxScenarios
    /\ \E raw \in Inputs.menu :
        LET choice == ask_choice(raw, MAIN_MENU)
        IN  choice.ok /\ choice.pick = "1"
    /\ said' = << Say("Create a new study strategy scenario.") >>
    /\ pc' = "name"
    /\ UNCHANGED << state, strategy, result, scenarios, results_cache, draft >>

\* the name; an empty one becomes "Scenario " and a random number
EnterName ==
    /\ pc = "name"
    /\ \E raw \in Inputs.name :
        LET name == ask(raw)
        IN  IF name = << >>
            THEN \E n \in RandomNames :
                    draft' = [name |-> << "S", "c", "e", "n", "a", "r", "i", "o", " " >> \o str(n)]
            ELSE draft' = [name |-> name]
    /\ said' = << >>
    /\ pc' = "m_key"
    /\ UNCHANGED << state, strategy, result, scenarios, results_cache >>

\* one answer to a prompt of ask_choice in create_strategy
Pick(prompt, inputs, options, next) ==
    /\ \E raw \in inputs :
        LET choice == ask_choice(raw, options)
        IN  IF choice.ok
            THEN /\ draft' = (prompt :> choice.pick) @@ draft
                 /\ said' = << >>
                 /\ pc' = next
            ELSE /\ said' = choice.said
                 /\ UNCHANGED << draft, pc >>
    /\ UNCHANGED << state, strategy, result, scenarios, results_cache >>

PickMethod ==
    /\ pc = "m_key"
    /\ Pick("m_key", Inputs.m_key, METHOD_OPTIONS, "e_key")

PickEnvironment ==
    /\ pc = "e_key"
    /\ Pick("e_key", Inputs.e_key, ENV_OPTIONS, "b_key")

PickBreakStyle ==
    /\ pc = "b_key"
    /\ Pick("b_key", Inputs.b_key, BREAK_OPTIONS, "session_minutes")

\* one answer to a prompt of ask_int in create_strategy
Enter(prompt, inputs, min_v, max_v, next) ==
    /\ \E raw \in inputs :
        LET answer == ask_int(raw, min_v, max_v)
        IN  IF answer.ok
            THEN /\ draft' = (prompt :> answer.val) @@ draft
                 /\ said' = << >>
                 /\ pc' = next
            ELSE /\ said' = answer.said
                 /\ UNCHANGED << draft, pc >>
    /\ UNCHANGED << state, strategy, result, scenarios, results_cache >>

EnterSessionMinutes ==
    /\ pc = "session_minutes"
    /\ Enter("session_minutes", Inputs.session_minutes,
             MinSessionMinutes, MaxSessionMinutes, "sessions_per_week")

EnterSessionsPerWeek ==
    /\ pc = "sessions_per_week"
    /\ Enter("sessions_per_week", Inputs.sessions_per_week,
             MinSessionsPerWeek, MaxSessionsPerWeek, "course_difficulty")

EnterCourseDifficulty ==
    /\ pc = "course_difficulty"
    /\ Enter("course_difficulty", Inputs.course_difficulty, MinLevel, MaxLevel,
             "distraction_risk")

\* the last answer: create_strategy returns the Strategy and main saves it
EnterDistractionRisk ==
    /\ pc = "distraction_risk"
    /\ \E raw \in Inputs.distraction_risk :
        LET answer == ask_int(raw, MinLevel, MaxLevel)
            s == Strategy(draft.name, METHOD_OPTIONS[draft.m_key],
                          draft.session_minutes, draft.sessions_per_week,
                          ENV_OPTIONS[draft.e_key], BREAK_OPTIONS[draft.b_key],
                          draft.course_difficulty, answer.val)
        IN  IF answer.ok
            THEN /\ scenarios' = Append(scenarios, s)
                 /\ said' = << SayName("Saved scenario: ", s.name) >>
                 /\ draft' = << >>
                 /\ pc' = "menu"
            ELSE /\ said' = answer.said
                 /\ UNCHANGED << scenarios, draft, pc >>
    /\ UNCHANGED << state, strategy, result, results_cache >>

\* choice 2: the scenarios are listed and their number is asked for
ChooseRun ==
    /\ pc = "menu"
    /\ \E raw \in Inputs.menu :
        LET choice == ask_choice(raw, MAIN_MENU)
        IN  choice.ok /\ choice.pick = "2"
    /\ IF scenarios = << >>
       THEN /\ said' = << Say("No scenarios yet. Create one first.") >>
            /\ pc' = "menu"
       ELSE /\ said' = << Say("Your scenarios:") >>
                       \o [i \in DOMAIN scenarios |->
                              [text |-> "pretty", strategy |-> scenarios[i]]]
            /\ pc' = "which"
    /\ UNCHANGED << state, strategy, result, scenarios, results_cache, draft >>

\* the number of the scenario: it is simulated, cached and printed
WhichScenario ==
    /\ pc = "which"
    /\ \E raw \in Inputs.which :
        LET answer == ask_int(raw, 1, Len(scenarios))
        IN  IF answer.ok
            THEN \E r \in { simulate(scenarios[answer.val]) } :
                    /\ results_cache' =
                           cache_update(results_cache, scenarios[answer.val], r)
                    /\ said' = print_result(scenarios[answer.val], r)
                    /\ pc' = "menu"
            ELSE /\ said' = answer.said
                 /\ UNCHANGED << results_cache, pc >>
    /\ UNCHANGED << state, strategy, result, scenarios, draft >>

\* choice 3
ChooseCompare ==
    /\ pc = "menu"
    /\ \E raw \in Inputs.menu :
        LET choice == ask_choice(raw, MAIN_MENU)
        IN  choice.ok /\ choice.pick = "3"
    /\ said' = IF results_cache = << >> THEN << Say("Run at least one simulation first.") >>
               ELSE compare(results_cache)
    /\ UNCHANGED << state, strategy, result, scenarios, results_cache, draft, pc >>

\* choice 4
ChooseList ==
    /\ pc = "menu"
    /\ \E raw \in Inputs.menu :
        LET choice == ask_choice(raw, MAIN_MENU)
        IN  choice.ok /\ choice.pick = "4"
    /\ said' = IF scenarios = << >> THEN << Say("No scenarios created yet.") >>
               ELSE << Say("Current scenarios:") >>
                    \o [i \in DOMAIN scenarios |->
                           [text |-> "pretty", strategy |-> scenarios[i]]]
    /\ UNCHANGED << state, strategy, result, scenarios, results_cache, draft, pc >>

\* choice 5
ChooseQuit ==
    /\ pc = "menu"
    /\ \E raw \in Inputs.menu :
        LET choice == ask_choice(raw, MAIN_MENU)
        IN  choice.ok /\ choice.pick = "5"
    /\ said' = << Say("Goodbye!") >>
    /\ pc' = "done"
    /\ UNCHANGED << state, strategy, result, scenarios, results_cache, draft >>

Next ==
    \/ InvalidChoice
    \/ ChooseCreate
    \/ EnterName
    \/ PickMethod
    \/ PickEnvironment
    \/ PickBreakStyle
    \/ EnterSessionMinutes
    \/ EnterSessionsPerWeek
    \/ EnterCourseDifficulty
    \/ EnterDistractionRisk
    \/ ChooseRun
    \/ WhichScenario
    \/ ChooseCompare
    \/ ChooseList
    \/ ChooseQuit

Spec == Init /\ [][Next]_vars

----------------------------------------------------------------------------
(* compare as a function of its argument: a call on one list of pairs.     *)

MaxResults == 3

LongName ==
    << "E", "x", "a", "m", " ", "W", "e", "e", "k", " ", "P", "l", "a", "n", " ",
       "A", " ", "(", "r", "e", "v", "i", "s", "e", "d", ")" >>

\* the name of the i-th pair: every pair has a name of its own
CompareName(i) ==
    IF i = 1 THEN LongName ELSE << "P", "l", "a", "n", " " >> \o str(i)

Scored(eff, sus, efy, burn) ==
    [effectiveness |-> eff, sustainability |-> sus, efficiency |-> efy,
     burnout_risk |-> burn, predicted_improvement |-> 50, notes |-> << >>]

\* the Results of the pairs: two values of every score that compare reads,
\* so that any two pairs tie in some scores and differ in the others
Scores ==
    { Scored(700, 600, 800, 300), Scored(900, 500, 800, 400),
      Scored(900, 600, 1000, 300), Scored(700, 500, 1000, 400) }

CompareInputs ==
    UNION { { [i \in 1..n |->
                << Strategy(CompareName(i), "practice_problems", 45, 4,
                            "library", "pomodoro", 3, 2), rs[i] >>] :
              rs \in [1..n -> Scores] } : n \in 0..MaxResults }

CompareInit ==
    /\ strategy = << >>
    /\ result = << >>
    /\ scenarios = << >>
    /\ results_cache \in CompareInputs
    /\ draft = << >>
    /\ said = << >>
    /\ pc = "call"
    /\ state = << >>

Compare ==
    /\ pc = "call"
    /\ said' = compare(results_cache)
    /\ pc' = "return"
    /\ UNCHANGED << state, strategy, result, scenarios, results_cache, draft >>

CompareNext == Compare

CompareSpec == CompareInit /\ [][CompareNext]_vars

----------------------------------------------------------------------------
(* The text adventure "Midnight at the Library" (game_test_text.py).  The  *)
(* variable state is the dict of main; pc is the prompt the program is     *)
(* waiting at: the menu of a room, or the password prompt of the           *)
(* terminal.  A step takes the line typed there and runs the program up   *)
(* to its next prompt or to its end ("over").  Of what the program        *)
(* prints, said keeps the ending and the farewell.                         *)

has_item(st, item) == \E i \in DOMAIN st.inventory : st.inventory[i] = item

\* add_item without its test of membership
add_item_unchecked(st, item) == [st EXCEPT !.inventory = Append(@, item)]

add_item(st, item) ==
    IF has_item(st, item) THEN st ELSE [st EXCEPT !.inventory = Append(@, item)]

\* max(0, min(100, health + amount))
change_health(st, amount) ==
    [st EXCEPT !.health = IF @ + amount > 100 THEN 100
                          ELSE IF @ + amount < 0 THEN 0 ELSE @ + amount]

\* random.random(), in hundredths: values on both sides of 0.25 and of 0.40
Rolls == { 0, 24, 25, 39, 40, 99 }

random_fear_event(st, roll) ==
    IF roll < 25 THEN change_health(st, -5)
    ELSE IF roll < 40 THEN change_health(st, 5)
    ELSE st

Stamps == { "stamp: owl", "stamp: mountain", "stamp: river" }

\* the lines typed at a menu (every menu has the keys 1 to 4) and at the
\* password prompt
GameInputs ==
    [menu |-> { << "1" >>, << "2" >>, << "3" >>, << "4" >>, << " ", "4", " " >>,
                << "5" >>, << >> },
     password |-> { << >>, << " " >>, << "C", "a", "l", "d", "w", "e", "l", "l", " " >>,
                    << "r", "i", "v", "e", "r" >> }]

\* the passwords the terminal accepts
Passwords ==
    { << "c", "a", "l", "d", "w", "e", "l", "l" >>,
      << "e", ".", " ", "c", "a", "l", "d", "w", "e", "l", "l" >>,
      << "e", "c", "a", "l", "d", "w", "e", "l", "l" >> }

MsgEscaped == "YOU ESCAPED - Ending: The Three Stamps"
MsgFailed == "GAME OVER - Ending: Trapped in the Stacks"

\* an ending, and main's loop left with game_over set
ending_escape(st) ==
    /\ state' = [st EXCEPT !.game_over = TRUE]
    /\ said' = << Say(MsgEscaped), Say("Thanks for playing!") >>
    /\ pc' = "over"

ending_fail(st) ==
    /\ state' = [st EXCEPT !.game_over = TRUE]
    /\ said' = << Say(MsgFailed), Say("Thanks for playing!") >>
    /\ pc' = "over"

\* the program goes on to the prompt next
Prompt(st, next) ==
    /\ state' = st
    /\ said' = << >>
    /\ pc' = next

\* "if state['health'] <= 0": at the end of a pass of the loop of the front
\* desk and of the hallway the game ends; a room returns to the hallway,
\* whose loop has this test after the call of the room
CheckHealth(st, next) ==
    IF st.health <= 0 THEN ending_fail(st) ELSE Prompt(st, next)

\* main up to the first prompt
GameInit ==
    /\ state = add_item([health |-> 100, inventory |-> << >>, game_over |-> FALSE],
                        "mysterious note")
    /\ pc = "front_desk"
    /\ said = << >>
    /\ strategy = << >>
    /\ result = << >>
    /\ scenarios = << >>
    /\ results_cache = << >>
    /\ draft = << >>

room_front_desk ==
    /\ pc = "front_desk"
    /\ \E raw \in GameInputs.menu :
           \E choice \in { Lower(Strip(raw)) } :
               CASE choice = << "1" >> -> CheckHealth(state, "front_desk")
                 [] choice = << "2" >> ->
                        CheckHealth(IF has_item(state, "brass key")
                                       /\ ~has_item(state, "stamp: owl")
                                    THEN add_item(state, "stamp: owl") ELSE state,
                                    "front_desk")
                 [] choice = << "3" >> -> Prompt(state, "hallway")
                 [] choice = << "4" >> ->
                        IF \A s \in Stamps : has_item(state, s)
                        THEN ending_escape(state)
                        ELSE CheckHealth(state, "front_desk")
                 [] OTHER -> UNCHANGED << state, said, pc >>
    /\ UNCHANGED << strategy, result, scenarios, results_cache, draft >>

\* a door leads into a room: its description, random_fear_event and its
\* first prompt
room_hallway ==
    /\ pc = "hallway"
    /\ \E raw \in GameInputs.menu :
           \E choice \in { Lower(Strip(raw)) } :
               CASE choice = << "1" >> ->
                        \E roll \in Rolls :
                            Prompt(random_fear_event(state, roll), "study_rooms")
                 [] choice = << "2" >> ->
                        \E roll \in Rolls :
                            Prompt(random_fear_event(state, roll), "computer_lab")
                 [] choice = << "3" >> ->
                        \E roll \in Rolls :
                            Prompt(random_fear_event(state, roll), "special_collections")
                 [] choice = << "4" >> -> Prompt(state, "front_desk")
                 [] OTHER -> UNCHANGED << state, said, pc >>
    /\ UNCHANGED << strategy, result, scenarios, results_cache, draft >>

room_study_rooms ==
    /\ pc = "study_rooms"
    /\ \E raw \in GameInputs.menu :
           \E choice \in { Lower(Strip(raw)) } :
               CASE choice = << "1" >> ->
                        CheckHealth(IF ~has_item(state, "brass key")
                                    THEN add_item(state, "brass key") ELSE state,
                                    "study_rooms")
                 [] choice = << "2" >> -> CheckHealth(state, "study_rooms")
                 [] choice = << "3" >> ->
                        CheckHealth(IF ~has_item(state, "stamp: mountain")
                                    THEN add_item(state, "stamp: mountain") ELSE state,
                                    "study_rooms")
                 [] choice = << "4" >> -> CheckHealth(state, "hallway")
                 [] OTHER -> UNCHANGED << state, said, pc >>
    /\ UNCHANGED << strategy, result, scenarios, results_cache, draft >>

room_computer_lab ==
    /\ pc = "computer_lab"
    /\ \E raw \in GameInputs.menu :
           \E choice \in { Lower(Strip(raw)) } :
               CASE choice = << "1" >> -> Prompt(state, "password")
                 [] choice = << "2" >> ->
                        CheckHealth(change_health(state, 10), "computer_lab")
                 [] choice = << "3" >> ->
                        CheckHealth(IF has_item(state, "password clue: river")
                                       /\ ~has_item(state, "stamp: river")
                                    THEN add_item(state, "stamp: river") ELSE state,
                                    "computer_lab")
                 [] choice = << "4" >> -> CheckHealth(state, "hallway")
                 [] OTHER -> UNCHANGED << state, said, pc >>
    /\ UNCHANGED << strategy, result, scenarios, results_cache, draft >>

\* the terminal of the computer lab: an empty attempt cancels and the loop
\* of the room continues without its test of health
TypePassword ==
    /\ pc = "password"
    /\ \E raw \in GameInputs.password :
           \E attempt \in { Lower(Strip(raw)) } :
               IF attempt = << >> THEN Prompt(state, "computer_lab")
               ELSE IF attempt \in Passwords
               THEN CheckHealth(add_item(state, "password clue: river"), "computer_lab")
               ELSE CheckHealth(change_health(state, -10), "computer_lab")
    /\ UNCHANGED << strategy, result, scenarios, results_cache, draft >>

room_special_collections ==
    /\ pc = "special_collections"
    /\ \E raw \in GameInputs.menu :
           \E choice \in { Lower(Strip(raw)) } :
               CASE choice \in { << "1" >>, << "2" >> } ->
                        CheckHealth(state, "special_collections")
                 [] choice = << "3" >> ->
                        CheckHealth(IF ~has_item(state, "flashlight")
                                    THEN add_item(state, "flashlight") ELSE state,
                                    "special_collections")
                 [] choice = << "4" >> -> CheckHealth(state, "hallway")
                 [] OTHER -> UNCHANGED << state, said, pc >>
    /\ UNCHANGED << strategy, result, scenarios, results_cache, draft >>

GameNext ==
    \/ room_front_desk
    \/ room_hallway
    \/ room_study_rooms
    \/ room_computer_lab
    \/ TypePassword
    \/ room_special_collections

GameSpec == GameInit /\ [][GameNext]_vars

----------------------------------------------------------------------------
(* Properties of the scorer, under ScorerSpec.                             *)

Returned == pc = "return"

\* C1: for every valid Strategy the Result has effectiveness, sustainability,
\* efficiency and burnout_risk in [0, 100] and predicted_improvement in
\* [0, 15] (the scores are numbers of tenths).
C1_ResultInRange ==
    Returned =>
        /\ result.effectiveness \in 0..1000
        /\ result.sustainability \in 0..1000
        /\ result.efficiency \in 0..1000
        /\ result.burnout_risk \in 0..1000
        /\ result.predicted_improvement \in 0..150

\* a Result whose efficiency was clamped at 100 and whose predicted
\* improvement was clamped at 0
C1_Witness ==
    /\ Returned
    /\ result.efficiency = 1000
    /\ result.predicted_improvement = 0

C2Strategy ==
    Strategy(ScorerName, "practice_problems", 45, 4, "library", "pomodoro", 3, 2)

\* C2 as claimed: for practice_problems, library, pomodoro, 45 minutes, 4
\* sessions a week, difficulty 3 and distraction risk 2 the effectiveness
\* is 78.1.
C2_Effectiveness78_1 ==
    (Returned /\ strategy = C2Strategy) => result.effectiveness = 781

\* C2 as amended: for that Strategy the effectiveness is 71.9, the formula's
\* 85.0 * 1.00 * 1.00 * 1.00 * 1.0 * 0.94 * 0.90 = 71.91 rounded to one
\* decimal.
C2_Effectiveness71_9 ==
    (Returned /\ strategy = C2Strategy) => result.effectiveness = 719

C2_Witness == Returned /\ strategy = C2Strategy

\* C6: with every other field fixed, a higher distraction_risk never gives
\* a higher effectiveness, and a higher course_difficulty never gives a
\* higher effectiveness.
C6_EffectivenessMonotone ==
    Returned =>
        \A level \in Levels :
            LET riskier == [strategy EXCEPT !.distraction_risk = level]
                harder  == [strategy EXCEPT !.course_difficulty = level]
            IN  /\ (level > strategy.distraction_risk /\ riskier \in Strategies)
                       => Simulated[riskier].effectiveness <= result.effectiveness
                /\ (level > strategy.course_difficulty /\ harder \in Strategies)
                       => Simulated[harder].effectiveness <= result.effectiveness

\* a Strategy whose effectiveness is strictly above that of the same
\* Strategy at the highest distraction risk and at the highest difficulty
C6_Witness ==
    LET riskier == [strategy EXCEPT !.distraction_risk = MaxLevel]
        harder  == [strategy EXCEPT !.course_difficulty = MaxLevel]
    IN  /\ Returned
        /\ strategy.distraction_risk < MaxLevel
        /\ strategy.course_difficulty < MaxLevel
        /\ riskier \in Strategies
        /\ harder \in Strategies
        /\ Simulated[riskier].effectiveness < result.effectiveness
        /\ Simulated[harder].effectiveness < result.effectiveness

UnknownKey(s) ==
    \/ s.method \notin DOMAIN METHOD_WEIGHTS
    \/ s.environment \notin DOMAIN ENVIRONMENT_WEIGHTS
    \/ s.break_style \notin DOMAIN BREAK_WEIGHTS

\* the Result the formula gives with 0.60, 0.85 and 0.85 for the strings
\* that are no key of their table
C7Expected ==
    [s \in { x \in Strategies : UnknownKey(x) } |->
        score(s,
              IF s.method \in DOMAIN METHOD_WEIGHTS
              THEN METHOD_WEIGHTS[s.method] ELSE FDec(60, 100),
              IF s.environment \in DOMAIN ENVIRONMENT_WEIGHTS
              THEN ENVIRONMENT_WEIGHTS[s.environment] ELSE FDec(85, 100),
              IF s.break_style \in DOMAIN BREAK_WEIGHTS
              THEN BREAK_WEIGHTS[s.break_style] ELSE FDec(85, 100))]

\* C7: for a method, environment or break style that is no key of its
\* weight table simulate returns the Result the formula gives with the
\* weight 0.60 for the method, 0.85 for the environment and 0.85 for the
\* break style.
C7_UnknownKeysUseDefaults ==
    (Returned /\ UnknownKey(strategy)) => result = C7Expected[strategy]

C7_Witness ==
    /\ Returned
    /\ strategy.method = "meditation"
    /\ strategy.environment = "garden"
    /\ strategy.break_style = "stretching"

\* the five advisory rules by their notes, in declaration order
RuleOrder == << NotePassive, NoteBreaks, NoteDistraction, NoteFrequency, NoteLoad >>
Rules == { RuleOrder[i] : i \in DOMAIN RuleOrder }

\* the rules whose note is in a sequence of notes
Fired(ns) == { n \in Rules : \E i \in DOMAIN ns : ns[i] = n }

\* the sets of rules that fire together for some Strategy
FiredSubsets == { Fired(notes(s)) : s \in Strategies }

\* the notes of the fired rules appear once each, in declaration order,
\* after the session-length note
InRuleOrder(s, r) ==
    LET IsFired(n) == n \in Fired(r.notes)
    IN  r.notes = session_notes(s) \o SelectSeq(RuleOrder, IsFired)

\* C8 as claimed: every subset of the five rules is the set of rules that
\* fire for some valid Strategy, and the fired rules' notes are in
\* declaration order.
C8_EverySubsetFires ==
    /\ FiredSubsets = SUBSET Rules
    /\ Returned => InRuleOrder(strategy, result)

\* C8 as amended: the low-frequency rule and the high-load rule never fire
\* together; every subset of the five rules without that pair is the set of
\* rules that fire for some valid Strategy; the fired rules' notes are in
\* declaration order.
C8_SubsetsWithoutFrequencyAndLoad ==
    /\ FiredSubsets =
           { sub \in SUBSET Rules : ~({NoteFrequency, NoteLoad} \subseteq sub) }
    /\ Returned => InRuleOrder(strategy, result)

\* four rules fire at once: all but the low-frequency rule
C8_Witness ==
    /\ Returned
    /\ Fired(result.notes) = Rules \ {NoteFrequency}
    /\ strategy.session_minutes = MaxSessionMinutes

\* the effectiveness the formula gives with the session-focus factor focus
FocusedEffectiveness(s, focus) ==
    Round1(clamp(FMul(FMul(FMul(FMul(FMul(FMul(FInt(85), method_w(s)), env_w(s)),
                                     break_w(s)),
                                focus),
                           distraction_penalty(s)),
                      difficulty_penalty(s)),
                 FZero, FInt(100)))

\* the session-length notes in a sequence of notes
SessionLengthNotes(ns) ==
    SelectSeq(ns, LAMBDA n : n \in { NoteLong, NoteVeryLong })

\* C11: up to 60 minutes the session-focus factor is 1.0 and no
\* session-length note is in the notes; above 60 and up to 90 minutes the
\* factor is 0.88, above 90 minutes it is 0.75, and in both cases exactly one
\* session-length note (the stronger one above 90) is in the notes, as their
\* first element.
C11_SessionFocusAndNote ==
    Returned =>
        IF strategy.session_minutes <= 60
        THEN /\ result.effectiveness = FocusedEffectiveness(strategy, FInt(1))
             /\ SessionLengthNotes(result.notes) = << >>
        ELSE IF strategy.session_minutes <= 90
        THEN /\ result.effectiveness = FocusedEffectiveness(strategy, FDec(88, 100))
             /\ SessionLengthNotes(result.notes) = << NoteLong >>
             /\ result.notes[1] = NoteLong
        ELSE /\ result.effectiveness = FocusedEffectiveness(strategy, FDec(75, 100))
             /\ SessionLengthNotes(result.notes) = << NoteVeryLong >>
             /\ result.notes[1] = NoteVeryLong

\* a session of 90 minutes exactly: the weaker note comes first and the
\* notes of advisory rules follow it
C11_Witness ==
    /\ Returned
    /\ strategy.session_minutes = 90
    /\ Len(result.notes) >= 2
    /\ result.notes[1] = NoteLong

\* the notes that print_result shows for a Result
NotesShown(s, r) ==
    [i \in 1..(Len(print_result(s, r)) - 7) |-> print_result(s, r)[i + 7].note]

\* C14: the notes of a Result are at most 6, and print_result shows every
\* one of them, in their order.
C14_NoNoteDropped ==
    Returned =>
        /\ Len(result.notes) <= MaxNotesPrinted
        /\ result.notes # << >> => NotesShown(strategy, result) = result.notes
        /\ result.notes = << >> => Len(print_result(strategy, result)) = 6

\* the longest notes there are: the note of a very long session and the
\* notes of four advisory rules
C14_Witness ==
    /\ Returned
    /\ Len(result.notes) = 5
    /\ result.notes[1] = NoteVeryLong
    /\ Len(print_result(strategy, result)) = 12

----------------------------------------------------------------------------
(* Properties of compare, under CompareSpec.                               *)

\* the lowest index among the pairs whose score key is the greatest
\* (sign = 1) or the smallest (sign = -1) of the list
FirstBest(results, key, sign) ==
    CHOOSE i \in DOMAIN results :
        /\ \A j \in DOMAIN results :
               sign * results[j][2][key] <= sign * results[i][2][key]
        /\ \A j \in 1..(i - 1) :
               sign * results[j][2][key] < sign * results[i][2][key]

\* C3: compare on two pairs or more ends with the four superlatives, and
\* each names the lowest-index pair among those with the greatest
\* effectiveness, sustainability and efficiency and with the smallest
\* burnout risk (every pair of the list has a name of its own).
C3_FirstOccurrenceWins ==
    (pc = "return" /\ Len(results_cache) >= 2) =>
        SubSeq(said, Len(said) - 3, Len(said)) =
            << SayName("Highest effectiveness: ",
                       results_cache[FirstBest(results_cache, "effectiveness", 1)][1].name),
               SayName("Best sustainability: ",
                       results_cache[FirstBest(results_cache, "sustainability", 1)][1].name),
               SayName("Best efficiency: ",
                       results_cache[FirstBest(results_cache, "efficiency", 1)][1].name),
               SayName("Lowest burnout risk: ",
                       results_cache[FirstBest(results_cache, "burnout_risk", -1)][1].name) >>

\* effectiveness 70, 90, 90: the second pair is named, not the third
C3_Witness ==
    /\ pc = "return"
    /\ Len(results_cache) = 3
    /\ results_cache[1][2].effectiveness = 700
    /\ results_cache[2][2].effectiveness = 900
    /\ results_cache[3][2].effectiveness = 900
    /\ \E k \in DOMAIN said :
           said[k] = SayName("Highest effectiveness: ", CompareName(2))

----------------------------------------------------------------------------
(* Properties of the session, under Spec.                                  *)

UniqueNames(cache) ==
    \A i, j \in DOMAIN cache : i # j => cache[i][1].name # cache[j][1].name

Pairs(cache) == { cache[i] : i \in DOMAIN cache }

\* the Result that the lines of print_result show
Shown(lines, r) ==
    /\ lines[2].value = r.effectiveness
    /\ lines[3].value = r.sustainability
    /\ lines[4].value = r.efficiency
    /\ lines[5].value = r.burnout_risk
    /\ lines[6].value = r.predicted_improvement

\* C4: the cache never holds two pairs of one name, and a run of a scenario
\* leaves in it the pairs it held for other names, and as its last pair the
\* scenario that was run with the Result that the run has printed.
C4_LastWriteWins ==
    [][ (pc = "which" /\ pc' = "menu") =>
            LET n == Len(results_cache')
                s == said'[1].strategy
            IN  /\ n >= 1
                /\ results_cache'[n][1] = s
                /\ Shown(said', results_cache'[n][2])
                /\ UniqueNames(results_cache')
                /\ \A p \in Pairs(results_cache) :
                       p[1].name # s.name => p \in Pairs(results_cache')
                /\ \A i \in 1..(n - 1) :
                       /\ results_cache'[i] \in Pairs(results_cache)
                       /\ results_cache'[i][1].name # s.name ]_vars

\* two scenarios of one name with different methods: the cache holds the
\* second one alone, and its Result is the one on the screen
C4_Witness ==
    /\ pc = "menu"
    /\ Len(scenarios) = 2
    /\ scenarios[1].name = scenarios[2].name
    /\ scenarios[1].method # scenarios[2].method
    /\ Len(results_cache) = 1
    /\ results_cache[1][1] = scenarios[2]
    /\ Len(said) >= 6
    /\ said[1] = [text |-> "pretty", strategy |-> scenarios[2]]

Superlatives ==
    { "Highest effectiveness: ", "Best sustainability: ", "Best efficiency: ",
      "Lowest burnout risk: " }

\* C5: compare on no pair and on one pair says that two scenarios are
\* needed and prints no table and no superlative, and as long as the cache
\* of the session holds fewer than two pairs no line of the comparison is
\* on the screen.
C5_TooFewToCompare ==
    /\ compare(<< >>) = << Say("Create at least two scenarios to compare.") >>
    /\ Len(results_cache) = 1 => compare(results_cache) = << Say("Create at least two scenarios to compare.") >>
    /\ Len(results_cache) < 2 =>
           \A k \in DOMAIN said :
               said[k].text \notin Superlatives \cup { "Scenario Comparison", "row" }

\* the comparison was chosen with one pair in the cache
C5_Witness ==
    /\ pc = "menu"
    /\ Len(results_cache) = 1
    /\ said = << Say("Create at least two scenarios to compare.") >>

Values(options) == { options[k] : k \in DOMAIN options }

\* the ranges and the option tables of create_strategy
InRange(s) ==
    /\ s.session_minutes \in MinSessionMinutes..MaxSessionMinutes
    /\ s.sessions_per_week \in MinSessionsPerWeek..MaxSessionsPerWeek
    /\ s.course_difficulty \in Levels
    /\ s.distraction_risk \in Levels
    /\ s.method \in Values(METHOD_OPTIONS)
    /\ s.environment \in Values(ENV_OPTIONS)
    /\ s.break_style \in Values(BREAK_OPTIONS)

\* the answers that create_strategy has accepted so far
DraftInRange ==
    /\ "m_key" \in DOMAIN draft => draft.m_key \in DOMAIN METHOD_OPTIONS
    /\ "e_key" \in DOMAIN draft => draft.e_key \in DOMAIN ENV_OPTIONS
    /\ "b_key" \in DOMAIN draft => draft.b_key \in DOMAIN BREAK_OPTIONS
    /\ "session_minutes" \in DOMAIN draft =>
           draft.session_minutes \in MinSessionMinutes..MaxSessionMinutes
    /\ "sessions_per_week" \in DOMAIN draft =>
           draft.sessions_per_week \in MinSessionsPerWeek..MaxSessionsPerWeek
    /\ "course_difficulty" \in DOMAIN draft => draft.course_difficulty \in Levels

\* C9: every Strategy of the scenario list, every Strategy that was
\* simulated (the cache holds it) and every answer accepted for the
\* Strategy under construction is within the ranges and the option tables.
C9_OnlyValidScenarios ==
    /\ \A i \in DOMAIN scenarios : InRange(scenarios[i])
    /\ \A i \in DOMAIN results_cache : InRange(results_cache[i][1])
    /\ DraftInRange

\* a session length out of range has just been rejected and is asked for
\* again, with one scenario saved before
C9_Witness ==
    /\ pc = "session_minutes"
    /\ Len(scenarios) = 1
    /\ said = << SayRange("Value must be between {min_v} and {max_v}.", MinSessionMinutes, MaxSessionMinutes) >>

----------------------------------------------------------------------------
(* Properties of the text adventure, under GameSpec.                       *)

Escaped == pc = "over" /\ said[1] = Say(MsgEscaped)
Failed == pc = "over" /\ said[1] = Say(MsgFailed)

\* C12: once health is 0 no step of the player changes health or
\* inventory, so health never rises above 0 again, and no step reaches the
\* escape ending: the only ending left is the fail ending.
C12_HealthZeroEndsGame ==
    [][ state.health = 0 =>
            /\ state'.health = 0
            /\ state'.inventory = state.inventory
            /\ ~Escaped' ]_vars

\* item a stands before every occurrence of item b in the inventory: the
\* inventory only grows at its end, so a was in it when b was added
Before(a, b) ==
    \A j \in DOMAIN state.inventory :
        state.inventory[j] = b => \E i \in 1..(j - 1) : state.inventory[i] = a

\* C13: the escape ending is reached only with the three stamps in the
\* inventory; 'stamp: owl' is added only after 'brass key' and 'stamp:
\* river' only after 'password clue: river'; no item is in the inventory
\* twice.
C13_StampsAndPrerequisites ==
    /\ Escaped => \A s \in Stamps : has_item(state, s)
    /\ Before("brass key", "stamp: owl")
    /\ Before("password clue: river", "stamp: river")
    /\ \A i, j \in DOMAIN state.inventory :
           i # j => state.inventory[i] # state.inventory[j]

\* the escape ending, reached with nothing but the note, the two
\* prerequisites and the three stamps
C13_Witness ==
    /\ Escaped
    /\ state.game_over
    /\ Len(state.inventory) = 6
    /\ has_item(state, "brass key")
    /\ has_item(state, "password clue: river")

====
